---- MODULE Spec2Model ----
(***************************************************************************)
(* SmartShelfGUIDemo: the line decoder (src/parser.py, src/message.py),   *)
(* the rails of the shelf (src/gui/shelf.py) and the signal wiring between *)
(* the serial handler, the parser and the main window (scripts/main.py,    *)
(* src/serial_handler.py, src/gui/interface.py, src/gui/serial.py).        *)
(*                                                                         *)
(* Text is a sequence of one-character strings, so that strip, upper,      *)
(* split, the field regex and the int conversions act on characters as in  *)
(* Python.  An optional value (Optional[...]) is a sequence of length 0    *)
(* (None) or 1 (the value).                                                *)
(***************************************************************************)
EXTENDS Integers, Sequences, FiniteSets, TLC

VARIABLES
    message,      \* the text last handed to Parser.parse_message by the last
                  \* handler
    shape,        \* how that text was assembled: [head, fields, tail]
    emitted,      \* what message_parsed.emit carried in that call: <<>> before
                  \* the call, then one object, None or a Message
    serial_open,  \* QSerialPort.isOpen()
    port_name,    \* QSerialPort.portName()
    rails,        \* ShelfWidget.rails: canonical id -> RailWidget
    origin,       \* the signal that led to the last parse_message call
    applied,      \* the last update_distance calls on the rail under test
    settings,     \* QSerialPort's data bits, parity, stop bits and flow control
    calls,        \* the QSerialPort calls and the signals of SerialHandler the
                  \* last handler made, in their order: [op, arg]
    text_edit,    \* the lines the last handler appended to text_edit
    raised,       \* the exceptions that left a slot while the last handler ran
    quit,         \* QApplication.quit() was called
    handler,      \* the last handler that ran and what it was given: [name, arg]
    read_buffer,  \* the bytes QSerialPort has received and readLine has not taken
    arrived,      \* every byte that reached the port, in its order
    received      \* every text message_received carried from read_data, in its order

vars == <<message, shape, emitted, serial_open, port_name, rails, origin, applied,
          settings, calls, text_edit, raised, quit, handler,
          read_buffer, arrived, received>>

----------------------------------------------------------------------------
(* Optional values *)

None == <<>>

Some(x) == <<x>>

IsNone(o) == o = <<>>

\* dict.get(key, default)
get(config, key, default) == IF key \in DOMAIN config THEN config[key] ELSE default

----------------------------------------------------------------------------
(* Python str operations on sequences of characters *)

Whitespace == {" ", "\t", "\n", "\r"}

LowerCase == <<"a","b","c","d","e","f","g","h","i","j","k","l","m",
               "n","o","p","q","r","s","t","u","v","w","x","y","z">>

UpperCase == <<"A","B","C","D","E","F","G","H","I","J","K","L","M",
               "N","O","P","Q","R","S","T","U","V","W","X","Y","Z">>

upper_char(c) ==
    IF \E i \in 1..26 : LowerCase[i] = c
    THEN UpperCase[CHOOSE i \in 1..26 : LowerCase[i] = c]
    ELSE c

upper(s) == [i \in 1..Len(s) |-> upper_char(s[i])]

RECURSIVE lstrip(_)
lstrip(s) ==
    IF s = <<>> THEN s
    ELSE IF Head(s) \in Whitespace THEN lstrip(Tail(s))
    ELSE s

RECURSIVE rstrip(_)
rstrip(s) ==
    IF s = <<>> THEN s
    ELSE IF s[Len(s)] \in Whitespace THEN rstrip(SubSeq(s, 1, Len(s) - 1))
    ELSE s

strip(s) == rstrip(lstrip(s))

startswith(s, c) == s /= <<>> /\ Head(s) = c

\* the least index >= from at which s holds c, or 0
RECURSIVE find(_, _, _)
find(s, c, from) ==
    IF from > Len(s) THEN 0
    ELSE IF s[from] = c THEN from
    ELSE find(s, c, from + 1)

\* str.split(sep) for a one-character separator: never an empty list
RECURSIVE split(_, _)
split(s, sep) ==
    LET i == find(s, sep, 1) IN
    IF i = 0 THEN <<s>>
    ELSE <<SubSeq(s, 1, i - 1)>> \o split(SubSeq(s, i + 1, Len(s)), sep)

\* re.findall(r"\[([^\]]*)\]", s): from the first "[" to the first "]" after
\* it, then on from behind that "]"
RECURSIVE findall_fields(_)
findall_fields(s) ==
    LET i == find(s, "[", 1)
        j == IF i = 0 THEN 0 ELSE find(s, "]", i + 1)
    IN IF i = 0 \/ j = 0 THEN <<>>
       ELSE <<SubSeq(s, i + 1, j - 1)>> \o findall_fields(SubSeq(s, j + 1, Len(s)))

----------------------------------------------------------------------------
(* Python int(text, base) and the format spec 04X *)

HexDigits == <<"0","1","2","3","4","5","6","7","8","9","A","B","C","D","E","F">>

\* the value of a digit character in the base, or -1
digit_value(c, base) ==
    LET u == upper_char(c) IN
    IF \E i \in 1..base : HexDigits[i] = u
    THEN (CHOOSE i \in 1..base : HexDigits[i] = u) - 1
    ELSE -1

\* digits with single underscores between them (PEP 515); Optional value
RECURSIVE digits_value(_, _, _, _)
digits_value(s, base, acc, after_digit) ==
    IF s = <<>> THEN (IF after_digit THEN Some(acc) ELSE None)
    ELSE IF Head(s) = "_"
         THEN (IF after_digit THEN digits_value(Tail(s), base, acc, FALSE) ELSE None)
    ELSE IF digit_value(Head(s), base) < 0 THEN None
    ELSE digits_value(Tail(s), base, acc * base + digit_value(Head(s), base), TRUE)

\* the digits of int(u, base) behind the sign: for base 16 an optional 0x
\* prefix, which one underscore may follow
unsigned_int(u, base) ==
    IF base = 16 /\ Len(u) >= 2 /\ u[1] = "0" /\ u[2] \in {"x", "X"}
    THEN IF Len(u) >= 3 /\ u[3] = "_"
         THEN digits_value(SubSeq(u, 4, Len(u)), base, 0, FALSE)
         ELSE digits_value(SubSeq(u, 3, Len(u)), base, 0, FALSE)
    ELSE digits_value(u, base, 0, FALSE)

negated(v) == IF IsNone(v) THEN None ELSE Some(0 - v[1])

\* int(t, base) of a stripped text: one optional sign, then the digits
signed_int(t, base) ==
    IF startswith(t, "-") THEN negated(unsigned_int(Tail(t), base))
    ELSE IF startswith(t, "+") THEN unsigned_int(Tail(t), base)
    ELSE unsigned_int(t, base)

\* int(s, base) for base 10 or 16; None stands for the ValueError
py_int(s, base) == signed_int(strip(s), base)

\* the hexadecimal digits of n >= 0, upper case, no padding
RECURSIVE hex_digits(_)
hex_digits(n) ==
    IF n < 16 THEN <<HexDigits[n + 1]>>
    ELSE hex_digits(n \div 16) \o <<HexDigits[(n % 16) + 1]>>

RECURSIVE zero_pad(_, _)
zero_pad(s, width) == IF Len(s) >= width THEN s ELSE zero_pad(<<"0">> \o s, width)

\* f"{n:04X}": the sign counts in the width of 4
format_04X(n) ==
    IF n >= 0 THEN zero_pad(hex_digits(n), 4)
    ELSE <<"-">> \o zero_pad(hex_digits(0 - n), 3)

RECURSIVE dec_digits(_)
dec_digits(n) ==
    IF n < 10 THEN <<HexDigits[n + 1]>>
    ELSE dec_digits(n \div 10) \o <<HexDigits[(n % 10) + 1]>>

\* the decimal text of an integer, as the tag firmware prints it
str_int(n) == IF n < 0 THEN <<"-">> \o dec_digits(0 - n) ELSE dec_digits(n)

----------------------------------------------------------------------------
(* src/message.py *)

MessageType == {"DISTANCE", "BATTERY", "DISCONNECTED", "OTHER"}

\* f"{v:04d}" of an Optional integer
formatted_decimal(v) ==
    IF IsNone(v) THEN None
    ELSE IF v[1] >= 0 THEN Some(zero_pad(dec_digits(v[1]), 4))
    ELSE Some(<<"-">> \o zero_pad(dec_digits(0 - v[1]), 3))

\* f"{v:04X}" of an Optional integer
formatted(v) == IF IsNone(v) THEN None ELSE Some(format_04X(v[1]))

\* Message._convert_esl_id: esl_id is Optional text; int(None, 16) raises
\* TypeError and int of a non-hex text ValueError, both caught
convert_esl_id(esl_id) ==
    IF IsNone(esl_id) THEN None ELSE formatted(py_int(esl_id[1], 16))

\* Message.__init__
Message(msg_type, content, esl_id, data) ==
    [msg_type |-> msg_type,
     content  |-> content,
     esl_id   |-> convert_esl_id(esl_id),
     data     |-> data]

----------------------------------------------------------------------------
(* src/parser.py *)

ESL_ID == <<"E","S","L","_","I","D">>

DISTANCE == <<"D","I","S","T","A","N","C","E">>

BATTERY == <<"B","A","T","T","E","R","Y">>

TAG_DISCONNECTED == <<"T","A","G"," ","D","I","S","C","O","N","N","E","C","T","E","D">>

\* Message(type, msg, esl_id, int(...)) of the DISTANCE and BATTERY cases:
\* data is the Optional result of int(), None for its ValueError, which
\* ends parse_message_fields in the except branch
int_message(msg_type, msg, esl_id, data) ==
    IF IsNone(data) THEN None ELSE Some(Message(msg_type, msg, Some(esl_id), data))

\* second_field[1] of the DISTANCE and BATTERY cases (IndexError: None)
int_payload(second_field) ==
    IF Len(second_field) < 2 THEN None ELSE py_int(strip(second_field[2]), 10)

\* the match statement without .upper() on the key
match_second_field_case_sensitive(msg, esl_id, second_field) ==
    CASE strip(second_field[1]) = DISTANCE ->
             int_message("DISTANCE", msg, esl_id, int_payload(second_field))
      [] strip(second_field[1]) = BATTERY ->
             int_message("BATTERY", msg, esl_id, int_payload(second_field))
      [] strip(second_field[1]) = TAG_DISCONNECTED ->
             Some(Message("DISCONNECTED", msg, Some(esl_id), None))
      [] OTHER -> Some(Message("OTHER", msg, None, None))

\* the match statement with a default case that keeps the ESL ID
match_second_field_keeps_id(msg, esl_id, second_field) ==
    CASE upper(strip(second_field[1])) = DISTANCE ->
             int_message("DISTANCE", msg, esl_id, int_payload(second_field))
      [] upper(strip(second_field[1])) = BATTERY ->
             int_message("BATTERY", msg, esl_id, int_payload(second_field))
      [] upper(strip(second_field[1])) = TAG_DISCONNECTED ->
             Some(Message("DISCONNECTED", msg, Some(esl_id), None))
      [] OTHER -> Some(Message("OTHER", msg, Some(esl_id), None))

\* the match statement of parse_message_fields on the second field's key
match_second_field(msg, esl_id, second_field) ==
    CASE upper(strip(second_field[1])) = DISTANCE ->
             int_message("DISTANCE", msg, esl_id, int_payload(second_field))
      [] upper(strip(second_field[1])) = BATTERY ->
             int_message("BATTERY", msg, esl_id, int_payload(second_field))
      [] upper(strip(second_field[1])) = TAG_DISCONNECTED ->
             Some(Message("DISCONNECTED", msg, Some(esl_id), None))
      [] OTHER -> Some(Message("OTHER", msg, None, None))

\* parse_message_fields from first_field on
match_first_field(msg, fields, first_field) ==
    IF upper(first_field[1]) = ESL_ID
    THEN IF Len(first_field) < 2 \/ Len(fields) < 2 THEN None
         ELSE match_second_field(msg, strip(first_field[2]), split(fields[2], ":"))
    ELSE Some(Message("OTHER", msg, None, None))

\* the fields of parse_message_fields: re.findall on msg[1:]
message_fields(msg) == findall_fields(SubSeq(msg, 2, Len(msg)))

\* parse_message_fields given its fields
parse_fields(msg, fields) ==
    IF Len(fields) < 1 THEN None
    ELSE match_first_field(msg, fields, split(fields[1], ":"))

\* Parser.parse_message_fields: Optional Message.  Each IndexError (a list
\* shorter than the index used) and each ValueError of int() ends in the
\* except branch, which returns None.
parse_message_fields(msg) == parse_fields(msg, message_fields(msg))

\* Parser.parse_message: the object handed to message_parsed.emit
parse_message(text) ==
    LET parsed_message == strip(text) IN
    IF startswith(parsed_message, "#")
    THEN parse_message_fields(parsed_message)
    ELSE Some(Message("OTHER", text, None, None))

----------------------------------------------------------------------------
(* The lines the decoder is run on.  A line is a head, up to three        *)
(* bracketed fields and nothing else; a field is a key, and after a colon  *)
(* a value.  shape keeps the parts, message their concatenation.           *)

MaxFields == 3

lower_char(c) ==
    IF \E i \in 1..26 : UpperCase[i] = c
    THEN LowerCase[CHOOSE i \in 1..26 : UpperCase[i] = c]
    ELSE c

lower(s) == [i \in 1..Len(s) |-> lower_char(s[i])]

Field(key, colon, value) == [key |-> key, colon |-> colon, value |-> value]

field_text(f) ==
    <<"[">> \o f.key \o (IF f.colon THEN <<":">> \o f.value ELSE <<>>) \o <<"]">>

RECURSIVE fields_text(_)
fields_text(fs) ==
    IF fs = <<>> THEN <<>> ELSE field_text(Head(fs)) \o fields_text(Tail(fs))

line_text(sh) == sh.head \o fields_text(sh.fields)

HelloWorld == <<"h","e","l","l","o"," ","w","o","r","l","d">>

Foo == <<"F","O","O">>

Heads == { <<"#">>, <<" ", "#">>, <<>>, HelloWorld, <<" ", "x">> }

IdTexts ==
    { <<"0","a">>, <<"0","0","0","A">>, <<"0","B">>, <<"z","z">>, <<>>,
      <<" ","0","a"," ">>, <<"-","a">>, <<"1","F","F","F","F">>,
      <<"0","x","0","a">> }

PayloadTexts ==
    { <<"1","2","0">>, <<"-","5">>, <<" ","7"," ">>, <<"+","3">>, <<"1","_","0">>,
      <<"x">>, <<>>, <<"1",".","5">> }

FirstFields ==
    { Field(ESL_ID, TRUE, v) : v \in IdTexts }
    \cup { Field(lower(ESL_ID), TRUE, <<"0","a">>),
           Field(ESL_ID, FALSE, <<>>),
           Field(<<" ">> \o ESL_ID, TRUE, <<"0","a">>),
           Field(Foo, TRUE, <<"1">>),
           Field(DISTANCE, TRUE, <<"1","2","0">>),
           Field(<<>>, FALSE, <<>>) }

SecondFields ==
    { Field(k, TRUE, v) : k \in {DISTANCE, BATTERY}, v \in PayloadTexts }
    \cup { Field(k, FALSE, <<>>) :
             k \in {DISTANCE, BATTERY, TAG_DISCONNECTED, lower(TAG_DISCONNECTED), Foo} }
    \cup { Field(lower(DISTANCE), TRUE, <<"1","2","0">>),
           Field(lower(BATTERY), TRUE, <<"8","7">>),
           Field(<<" ">> \o DISTANCE \o <<" ">>, TRUE, <<"4">>),
           Field(TAG_DISCONNECTED, TRUE, <<"x">>),
           Field(Foo, TRUE, <<"1">>),
           Field(ESL_ID, TRUE, <<"0","a">>) }

MoreFields == { Field(BATTERY, TRUE, <<"9","9">>), Field(Foo, FALSE, <<>>) }

FieldLists ==
    { fs \in {<<>>} \cup { <<f>> : f \in FirstFields }
                    \cup { <<f, g>> : f \in FirstFields, g \in SecondFields }
                    \cup { <<f, g, h>> : f \in FirstFields, g \in SecondFields,
                                         h \in MoreFields } :
        Len(fs) <= MaxFields }

Shapes == { [head |-> h, fields |-> fs] : h \in Heads, fs \in FieldLists }

NoShape == [head |-> <<>>, fields |-> <<>>]

----------------------------------------------------------------------------
(* The decoder alone: one call of Parser.parse_message on one line *)

NoRails == <<>>

InitParser ==
    /\ shape \in Shapes
    /\ message = line_text(shape)
    /\ emitted = <<>>
    /\ serial_open = FALSE
    /\ port_name = <<>>
    /\ rails = NoRails
    /\ origin = "none"
    /\ applied = <<>>
    /\ settings = <<>>
    /\ calls = <<>>
    /\ text_edit = <<>>
    /\ raised = <<>>
    /\ quit = FALSE
    /\ handler = [name |-> "none", arg |-> <<>>]
    /\ read_buffer = <<>>
    /\ arrived = <<>>
    /\ received = <<>>

\* Parser.parse_message(message), with its message_parsed.emit(out)
ParseMessage ==
    /\ emitted = <<>>
    /\ emitted' = <<parse_message(message)>>
    /\ UNCHANGED <<message, shape, serial_open, port_name, rails, origin, applied>>
    /\ UNCHANGED <<settings, calls, text_edit, raised, quit, handler>>
    /\ UNCHANGED <<read_buffer, arrived, received>>

NextParser == ParseMessage

SpecParser == InitParser /\ [][NextParser]_vars

----------------------------------------------------------------------------
(* src/gui/shelf.py: RailWidget *)

\* Python's a // b for b /= 0: the floor of the quotient
floordiv(a, b) == IF b > 0 THEN a \div b ELSE (0 - a) \div (0 - b)

\* int(0.25 * item_length): the quarter, truncated towards zero
quarter(item_length) ==
    IF item_length >= 0 THEN item_length \div 4 ELSE 0 - ((0 - item_length) \div 4)

min(a, b) == IF a <= b THEN a ELSE b

max(a, b) == IF a >= b THEN a ELSE b

\* RailWidget.__init__ (item_length /= 0, see setup_ui).  n_items is the
\* count shown on item_count_button, None while it reads "#"; connected is
\* the state update_connection_status last showed, None before its first call.
RailWidget(rail_empty_distance, rail_full_distance, item_length, esl_id, mac_address) ==
    [esl_id              |-> esl_id,
     mac_address         |-> mac_address,
     rail_empty_distance |-> rail_empty_distance,
     rail_full_distance  |-> rail_full_distance,
     item_length         |-> item_length,
     tolerance           |-> quarter(item_length),
     max_items           |-> floordiv(rail_empty_distance - rail_full_distance, item_length),
     n_items             |-> None,
     connected           |-> None]

\* update_distance without the tolerance
update_distance_no_tolerance(rail, distance) ==
    LET n_items == floordiv(rail.rail_empty_distance - distance, rail.item_length)
    IN [rail EXCEPT !.n_items = Some(min(max(n_items, 0), rail.max_items))]

\* update_distance measuring from the full end: the count grows with the distance
update_distance_from_full(rail, distance) ==
    LET n_items == floordiv(distance - rail.rail_full_distance + rail.tolerance,
                            rail.item_length)
    IN [rail EXCEPT !.n_items = Some(min(max(n_items, 0), rail.max_items))]

\* RailWidget.update_distance
update_distance(rail, distance) ==
    LET n_items == floordiv(rail.rail_empty_distance - distance + rail.tolerance,
                            rail.item_length)
    IN [rail EXCEPT !.n_items = Some(min(max(n_items, 0), rail.max_items))]

\* RailWidget.update_connection_status
update_connection_status(rail, connected) == [rail EXCEPT !.connected = Some(connected)]

EslC_ForceMeasure ==
    <<"e","s","l","_","c"," ","f","o","r","c","e","_","m","e","a","s","u","r","e"," ">>

EslC_ConnectAddr ==
    <<"e","s","l","_","c"," ","a","c","l"," ","c","o","n","n","e","c","t","_",
      "a","d","d","r"," ","1"," ">>

\* the command of RailWidget.on_measure_button_clicked
measure_command(rail) == EslC_ForceMeasure \o rail.esl_id

\* the command of RailWidget.on_item_count_label_clicked
connect_command(rail) == EslC_ConnectAddr \o rail.mac_address

----------------------------------------------------------------------------
(* src/gui/shelf.py: ShelfWidget *)

TOP_ROW_ELEMENTS == 7

BOTTOM_ROW_ELEMENTS == 4

TOTAL_ELEMENTS == TOP_ROW_ELEMENTS + BOTTOM_ROW_ELEMENTS

\* ShelfWidget.setup_ui: the two loops go over esl_ids[:7] and esl_ids[7:11]
\* and index the other lists by the position in esl_ids, so together they
\* visit positions 1..min(len, 11) in order.  A list shorter than the
\* position (IndexError) or an item_length of 0 (ZeroDivisionError in
\* RailWidget.__init__) ends the construction: None.
RECURSIVE setup_ui(_, _, _, _, _, _, _, _)
setup_ui(index, acc, esl_ids, mac_addresses, rails_empty_distance, rails_full_distance, items_length, item_image_paths) ==
    IF index > min(Len(esl_ids), TOTAL_ELEMENTS) THEN Some(acc)
    ELSE IF \/ index > Len(rails_empty_distance)
            \/ index > Len(rails_full_distance)
            \/ index > Len(items_length)
            \/ index > Len(mac_addresses)
            \/ index > Len(item_image_paths)
            \/ items_length[index] = 0
         THEN None
    ELSE LET id == esl_ids[index]
             rail == RailWidget(rails_empty_distance[index], rails_full_distance[index],
                                items_length[index], id, mac_addresses[index])
         IN setup_ui(index + 1,
                     [k \in (DOMAIN acc) \cup {id} |-> IF k = id THEN rail ELSE acc[k]],
                     esl_ids, mac_addresses, rails_empty_distance,
                     rails_full_distance, items_length, item_image_paths)

\* ShelfWidget.__init__: the ids are canonicalised with f"{int(id, 16):04X}"
\* (ValueError for an id that is not hex: None), then setup_ui
ShelfWidget(config) ==
    IF \E i \in DOMAIN get(config, "ids", <<>>) :
           IsNone(py_int(get(config, "ids", <<>>)[i], 16))
    THEN None
    ELSE setup_ui(1, <<>>,
                  [i \in DOMAIN get(config, "ids", <<>>) |->
                      format_04X(py_int(get(config, "ids", <<>>)[i], 16)[1])],
                  get(config, "mac_addresses", <<>>),
                  get(config, "rail_empty_distance", <<>>),
                  get(config, "rail_full_distance", <<>>),
                  get(config, "item_length", <<>>),
                  get(config, "image_path", <<>>))

\* ShelfWidget.is_rail_valid
is_rail_valid(shelf, esl_id) == esl_id \in DOMAIN shelf

\* update_shelf with a DISCONNECTED case that also empties the rail
update_shelf_reset(shelf, msg) ==
    IF ~IsNone(msg.esl_id) /\ is_rail_valid(shelf, msg.esl_id[1])
    THEN LET rail == shelf[msg.esl_id[1]] IN
         CASE msg.msg_type = "DISTANCE" ->
                  [shelf EXCEPT ![msg.esl_id[1]] =
                      update_distance(update_connection_status(rail, TRUE), msg.data[1])]
           [] msg.msg_type = "DISCONNECTED" ->
                  [shelf EXCEPT ![msg.esl_id[1]] =
                      update_distance(update_connection_status(rail, FALSE),
                                      rail.rail_empty_distance + rail.item_length)]
           [] msg.msg_type = "BATTERY" ->
                  [shelf EXCEPT ![msg.esl_id[1]] = update_connection_status(rail, TRUE)]
           [] OTHER -> shelf
    ELSE shelf

\* update_shelf whose DISCONNECTED case takes the rail off the shelf
update_shelf_remove_rail(shelf, msg) ==
    IF ~IsNone(msg.esl_id) /\ is_rail_valid(shelf, msg.esl_id[1])
    THEN LET rail == shelf[msg.esl_id[1]] IN
         CASE msg.msg_type = "DISTANCE" ->
                  [shelf EXCEPT ![msg.esl_id[1]] =
                      update_distance(update_connection_status(rail, TRUE), msg.data[1])]
           [] msg.msg_type = "DISCONNECTED" ->
                  [k \in (DOMAIN shelf) \ {msg.esl_id[1]} |-> shelf[k]]
           [] msg.msg_type = "BATTERY" ->
                  [shelf EXCEPT ![msg.esl_id[1]] = update_connection_status(rail, TRUE)]
           [] OTHER -> shelf
    ELSE shelf

\* update_shelf whose DISCONNECTED case marks every rail as disconnected
update_shelf_disconnect_all(shelf, msg) ==
    IF ~IsNone(msg.esl_id) /\ is_rail_valid(shelf, msg.esl_id[1])
    THEN LET rail == shelf[msg.esl_id[1]] IN
         CASE msg.msg_type = "DISTANCE" ->
                  [shelf EXCEPT ![msg.esl_id[1]] =
                      update_distance(update_connection_status(rail, TRUE), msg.data[1])]
           [] msg.msg_type = "DISCONNECTED" ->
                  [k \in DOMAIN shelf |-> update_connection_status(shelf[k], FALSE)]
           [] msg.msg_type = "BATTERY" ->
                  [shelf EXCEPT ![msg.esl_id[1]] = update_connection_status(rail, TRUE)]
           [] OTHER -> shelf
    ELSE shelf

\* update_shelf that hands a message of an id that is on no rail to some rail
update_shelf_any_rail(shelf, msg) ==
    IF ~IsNone(msg.esl_id)
    THEN LET id == IF is_rail_valid(shelf, msg.esl_id[1]) THEN msg.esl_id[1]
                   ELSE CHOOSE k \in DOMAIN shelf : TRUE
             rail == shelf[id]
         IN CASE msg.msg_type = "DISTANCE" ->
                     [shelf EXCEPT ![id] =
                         update_distance(update_connection_status(rail, TRUE), msg.data[1])]
              [] msg.msg_type = "DISCONNECTED" ->
                     [shelf EXCEPT ![id] = update_connection_status(rail, FALSE)]
              [] msg.msg_type = "BATTERY" ->
                     [shelf EXCEPT ![id] = update_connection_status(rail, TRUE)]
              [] OTHER -> shelf
    ELSE shelf

\* ShelfWidget.update_shelf: the rails after the message
update_shelf(shelf, msg) ==
    IF ~IsNone(msg.esl_id) /\ is_rail_valid(shelf, msg.esl_id[1])
    THEN LET rail == shelf[msg.esl_id[1]] IN
         CASE msg.msg_type = "DISTANCE" ->
                  [shelf EXCEPT ![msg.esl_id[1]] =
                      update_distance(update_connection_status(rail, TRUE), msg.data[1])]
           [] msg.msg_type = "DISCONNECTED" ->
                  [shelf EXCEPT ![msg.esl_id[1]] = update_connection_status(rail, FALSE)]
           [] msg.msg_type = "BATTERY" ->
                  [shelf EXCEPT ![msg.esl_id[1]] = update_connection_status(rail, TRUE)]
           [] OTHER -> shelf
    ELSE shelf

\* MainWindow.message_received, connected to Parser.message_parsed: it reads
\* message.content first, which raises AttributeError when the parser
\* emitted None, and the slot ends there; otherwise virtual_shelf_update
\* hands the message to ShelfWidget.update_shelf.
message_received(shelf, obj) ==
    IF IsNone(obj) THEN shelf ELSE update_shelf(shelf, obj[1])

----------------------------------------------------------------------------
(* The application: scripts/main.py wires SerialHandler, Parser and       *)
(* MainWindow.  Every connection is a direct one, so a signal's slots run  *)
(* to their end inside the emit.                                           *)

COM3 == <<"C","O","M","3">>

COM4 == <<"C","O","M","4">>

PortNames == {COM3, COM4}

DEFAULT_BAUDRATE == 115200

DEFAULT_DATA_BITS == 8

DEFAULT_PARITY == "None"

DEFAULT_STOP_BITS == 1

DEFAULT_FLOW_CONTROL == "RTS/CTS"

\* the serial section of config/app.json at startup
StartupConfig == [port |-> COM3]

\* QComboBox.setCurrentText on a box that is not editable: the item of that
\* text becomes the current one, and with no such item the first one stays
setCurrentText(items, text) ==
    IF \E i \in DOMAIN items : items[i] = text THEN text ELSE items[1]

\* ConfigWindow._setup_ui fills the fields from config, and
\* open_port_clicked reads them back: the dict that open_port carries when
\* no field was edited.  The baudrate goes through str and int.
dialog_config(config) ==
    [port         |-> strip(get(config, "port", COM3)),
     baudrate     |-> py_int(str_int(get(config, "baudrate", 115200)), 10)[1],
     data_bits    |-> setCurrentText(<<5, 6, 7, 8>>, get(config, "data_bits", 8)),
     parity       |-> setCurrentText(<<"None", "Even", "Odd", "Mark", "Space">>,
                                     get(config, "parity", "None")),
     stop_bits    |-> setCurrentText(<<1, 2>>, get(config, "stop_bits", 1)),
     flow_control |-> setCurrentText(<<"None", "RTS/CTS", "XON/XOFF">>,
                                     get(config, "flow_control", "None"))]

\* the dicts update_serial_config is called with: that of the dialog as it
\* opens, and edited ones; a key may be missing, the port may be empty, and
\* a setting may lie outside what its setter matches.  stop_bits 1.5 is no
\* integer and is left out.
SerialConfigs ==
    { StartupConfig,
      dialog_config(StartupConfig),
      [port |-> COM4, baudrate |-> 9600, data_bits |-> 7, parity |-> "Even",
       stop_bits |-> 2, flow_control |-> "RTS/CTS"],
      [port |-> <<>>],
      [baudrate |-> 9600],
      [port |-> COM4, data_bits |-> 9],
      [port |-> COM4, parity |-> "Foo"],
      [port |-> COM4, stop_bits |-> 3],
      [port |-> COM4, flow_control |-> "Foo"] }

\* dict.get("port"): None for a missing key
get_port(config) == IF "port" \in DOMAIN config THEN Some(config.port) ELSE None

opened_text(name) ==
    <<"S","e","r","i","a","l"," ","p","o","r","t"," ">> \o name
        \o <<" ","o","p","e","n","e","d",".">>

closed_text(name) == name \o <<" ","c","l","o","s","e","d",".">>

\* the distances on the wire reach from -DistanceBelow to MaxDistance
DistanceBelow == 2

MaxDistance == 13

\* ... and the spec's example distance 120
AppDistances == ((0 - DistanceBelow)..MaxDistance) \cup {120}

IdA == <<"0","a">>

IdB == <<"0","B">>

IdC == <<"0","c">>

MacA == <<"A","A",":","0","1">>

MacB == <<"A","A",":","0","2">>

\* rail A's calibration: the spec's example, a small one, and one with
\* the empty and the full distance exchanged
AppCalibrations ==
    { [empty |-> 500, full |-> 100, length |-> 40],
      [empty |-> 12, full |-> 2, length |-> 3],
      [empty |-> 2, full |-> 12, length |-> 3] }

Image == <<"a",".","p","n","g">>

\* two rails under each calibration of rail A
ShelfConfigs ==
    { [ids                 |-> <<IdA, IdB>>,
       mac_addresses       |-> <<MacA, MacB>>,
       rail_empty_distance |-> <<c.empty, 10>>,
       rail_full_distance  |-> <<c.full, 0>>,
       item_length         |-> <<c.length, 4>>,
       image_path          |-> <<Image, Image>>] : c \in AppCalibrations }

Hash == <<"#">>

AppTelemetry ==
    { Field(DISTANCE, TRUE, str_int(d)) : d \in AppDistances }
    \cup { Field(BATTERY, TRUE, <<"8","7">>),
           Field(TAG_DISCONNECTED, FALSE, <<>>),
           Field(Foo, TRUE, <<"1">>),
           Field(DISTANCE, TRUE, <<"x">>) }

\* the lines the rig sends: telemetry of the two rails, of a tag that is on
\* no rail, of an id that is not hex, and lines that are no telemetry
AppShapes ==
    { [head |-> Hash, fields |-> <<Field(ESL_ID, TRUE, id), g>>] :
        id \in {IdA, IdB}, g \in AppTelemetry }
    \cup { [head |-> Hash, fields |-> <<Field(ESL_ID, TRUE, id), g>>] :
             id \in {IdC, <<"z","z">>},
             g \in { Field(DISTANCE, TRUE, <<"1">>), Field(BATTERY, TRUE, <<"8","7">>),
                     Field(TAG_DISCONNECTED, FALSE, <<>>) } }
    \cup { [head |-> HelloWorld, fields |-> <<>>],
           [head |-> Hash, fields |-> <<>>],
           [head |-> Hash, fields |-> <<Field(ESL_ID, TRUE, IdA)>>] }

\* what the operator types into the input field
OperatorShapes ==
    { [head |-> HelloWorld, fields |-> <<>>],
      [head |-> <<" ">>, fields |-> <<>>],
      [head |-> Hash,
       fields |-> <<Field(ESL_ID, TRUE, IdA), Field(DISTANCE, TRUE, str_int(120))>>],
      [head |-> Hash,
       fields |-> <<Field(ESL_ID, TRUE, IdB), Field(TAG_DISCONNECTED, FALSE, <<>>)>>] }

\* every text that reaches Parser.parse_message in the application
AppTexts ==
    { strip(line_text(sh)) : sh \in AppShapes \cup OperatorShapes }
    \cup { opened_text(p) : p \in PortNames }
    \cup { closed_text(p) : p \in PortNames }
    \cup UNION { { measure_command(ShelfWidget(c)[1][id]) : id \in DOMAIN ShelfWidget(c)[1] }
                 \cup { connect_command(ShelfWidget(c)[1][id]) : id \in DOMAIN ShelfWidget(c)[1] } :
                 c \in { c \in ShelfConfigs : ~IsNone(ShelfWidget(c)) } }

\* parse_message over AppTexts, computed once
parse_table == [text \in AppTexts |-> parse_message(text)]

\* the object Parser.message_parsed carries for a text
message_parsed(text) == parse_table[text]

\* The state a handler works on: the variables, and error, the exception on
\* its way up the call stack.  What describes the last handler (message,
\* shape, emitted, origin, calls, text_edit, raised) starts empty with every
\* handler.
World ==
    [message |-> <<>>, shape |-> NoShape, emitted |-> <<>>, origin |-> "none",
     serial_open |-> serial_open, port_name |-> port_name, settings |-> settings,
     rails |-> rails, quit |-> quit,
     calls |-> <<>>, text_edit |-> <<>>, raised |-> <<>>, error |-> None]

\* the handler name(arg) ends in w; an exception still on its way leaves
\* the slot
Becomes(name, arg, w) ==
    /\ handler' = [name |-> name, arg |-> arg]
    /\ message' = w.message
    /\ shape' = w.shape
    /\ emitted' = w.emitted
    /\ origin' = w.origin
    /\ serial_open' = w.serial_open
    /\ port_name' = w.port_name
    /\ settings' = w.settings
    /\ rails' = w.rails
    /\ quit' = w.quit
    /\ calls' = w.calls
    /\ text_edit' = w.text_edit
    /\ raised' = IF IsNone(w.error) THEN w.raised ELSE Append(w.raised, w.error[1])
    /\ UNCHANGED <<applied, read_buffer, arrived, received>>

\* a call of QSerialPort that returned ret, with the state of the port at
\* that moment
returned(w, op, arg, ret) ==
    [w EXCEPT !.calls = Append(@, [op |-> op, arg |-> arg, ret |-> ret,
                                   open |-> w.serial_open])]

\* a call of QSerialPort that returns nothing, or a signal of SerialHandler
call(w, op, arg) == returned(w, op, arg, None)

\* logging.error
logging_error(w) == call(w, "logging.error", <<>>)

\* SerialInterfaceWidget.append_message
append_message(w, text) == [w EXCEPT !.text_edit = Append(@, text)]

\* message_received that shows only the messages that have an id
Received_with_id(w, signal, text, sh, obj) ==
    LET parsed == [w EXCEPT !.message = text, !.shape = sh,
                            !.emitted = <<obj>>, !.origin = signal]
    IN IF IsNone(obj)
       THEN [parsed EXCEPT !.raised = Append(@, "AttributeError")]
       ELSE IF IsNone(obj[1].esl_id) THEN parsed
       ELSE [append_message(parsed, obj[1].content) EXCEPT
                !.rails = message_received(w.rails, obj)]

\* MainWindow.message_received for the object message_parsed carries:
\* message.content raises AttributeError for None, which leaves the slot
\* (PySide prints it and the emit returns); otherwise the content goes to
\* text_edit and the message to ShelfWidget.update_shelf
Received(w, signal, text, sh, obj) ==
    LET parsed == [w EXCEPT !.message = text, !.shape = sh,
                            !.emitted = <<obj>>, !.origin = signal]
    IN IF IsNone(obj)
       THEN [parsed EXCEPT !.raised = Append(@, "AttributeError")]
       ELSE [append_message(parsed, obj[1].content) EXCEPT
                !.rails = message_received(w.rails, obj)]

\* a signal of SerialHandler carrying text, through Parser.parse_message and
\* its message_parsed.emit to MainWindow.message_received
Deliver(w, signal, text, sh) ==
    Received(call(w, signal, text), signal, text, sh, message_parsed(text))

----------------------------------------------------------------------------
(* src/serial_handler.py: SerialHandler.  error carries a raised exception *)
(* past the statements that follow the raise.                              *)

set_port_name(w, name) ==
    IF IsNone(name) \/ name = Some(<<>>) THEN [w EXCEPT !.error = Some("ValueError")]
    ELSE [call(w, "setPortName", name[1]) EXCEPT !.port_name = name[1]]

set_baudrate(w, baudrate) ==
    IF ~IsNone(w.error) THEN w
    ELSE [call(w, "setBaudRate", <<>>) EXCEPT !.settings.baudrate = baudrate]

set_data_bits(w, data_bits) ==
    IF ~IsNone(w.error) THEN w
    ELSE [call(w, "setDataBits", <<>>) EXCEPT !.settings.data_bits =
             CASE data_bits = 5 -> "Data5"
               [] data_bits = 6 -> "Data6"
               [] data_bits = 7 -> "Data7"
               [] data_bits = 8 -> "Data8"
               [] OTHER -> "Data8"]

\* a parity that matches no case stays a str, and setParity(str) raises
\* TypeError
set_parity(w, parity) ==
    IF ~IsNone(w.error) THEN w
    ELSE IF parity \notin {"None", "Even", "Odd", "Mark", "Space"}
         THEN [w EXCEPT !.error = Some("TypeError")]
    ELSE [call(w, "setParity", <<>>) EXCEPT !.settings.parity =
             CASE parity = "None" -> "NoParity"
               [] parity = "Even" -> "EvenParity"
               [] parity = "Odd" -> "OddParity"
               [] parity = "Mark" -> "MarkParity"
               [] parity = "Space" -> "SpaceParity"]

set_stop_bits(w, stop_bits) ==
    IF ~IsNone(w.error) THEN w
    ELSE [call(w, "setStopBits", <<>>) EXCEPT !.settings.stop_bits =
             CASE stop_bits = 1 -> "OneStop"
               [] stop_bits = 2 -> "TwoStop"
               [] OTHER -> "OneStop"]

set_flow_control(w, flow_control) ==
    IF ~IsNone(w.error) THEN w
    ELSE [call(w, "setFlowControl", <<>>) EXCEPT !.settings.flow_control =
             CASE flow_control = "None" -> "NoFlowControl"
               [] flow_control = "RTS/CTS" -> "HardwareControl"
               [] flow_control = "XON/XOFF" -> "SoftwareControl"
               [] OTHER -> "NoFlowControl"]

\* the except clause of configure_serial: a ValueError is logged and raised
\* again
except_value_error(w) ==
    IF w.error = Some("ValueError") THEN logging_error(w) ELSE w

\* SerialHandler.configure_serial
configure_serial(w, config) ==
  except_value_error(
    set_flow_control(
        set_stop_bits(
            set_parity(
                set_data_bits(
                    set_baudrate(set_port_name(w, get_port(config)),
                                 get(config, "baudrate", DEFAULT_BAUDRATE)),
                    get(config, "data_bits", DEFAULT_DATA_BITS)),
                get(config, "parity", DEFAULT_PARITY)),
            get(config, "stop_bits", DEFAULT_STOP_BITS)),
        get(config, "flow_control", DEFAULT_FLOW_CONTROL)))

\* SerialHandler.open_serial; opened is what QSerialPort.open returns
open_serial(w, opened) ==
    IF w.serial_open THEN w
    ELSE IF opened
         THEN Deliver([returned(w, "open", <<>>, Some(TRUE)) EXCEPT !.serial_open = TRUE],
                      "serial_port_opened", opened_text(w.port_name), NoShape)
    ELSE logging_error(returned(w, "open", <<>>, Some(FALSE)))

\* SerialHandler.close_serial, with Application.handle_serial_port_closed
close_serial(w) ==
    IF w.serial_open
    THEN Deliver([call(w, "close", <<>>) EXCEPT !.serial_open = FALSE],
                 "serial_port_closed", closed_text(w.port_name), NoShape)
    ELSE w

\* open_configured that goes on to open_serial after a ValueError
open_configured_any(w, opened) ==
    IF w.error = Some("ValueError")
    THEN open_serial([logging_error(w) EXCEPT !.error = None], opened)
    ELSE IF ~IsNone(w.error) THEN w
    ELSE open_serial(w, opened)

\* the step of update_serial_config after configure_serial: a ValueError is
\* caught and logged, any other exception goes on, and without one
\* open_serial follows
open_configured(w, opened) ==
    IF w.error = Some("ValueError") THEN [logging_error(w) EXCEPT !.error = None]
    ELSE IF ~IsNone(w.error) THEN w
    ELSE open_serial(w, opened)

\* update_serial_config that configures the port as it is, open or not
update_serial_config_live(w, new_config, opened) ==
    open_configured(configure_serial(w, new_config), opened)

\* SerialHandler.update_serial_config
update_serial_config(w, new_config, opened) ==
    open_configured(configure_serial(close_serial(w), new_config), opened)

\* an exception that leaves a slot is printed where the signal was emitted,
\* and emit returns
emit_returns(w) ==
    IF IsNone(w.error) THEN w
    ELSE [w EXCEPT !.raised = Append(@, w.error[1]), !.error = None]

PortOpened == <<"P","o","r","t"," ","O","p","e","n","e","d">>

PortClosed == <<"P","o","r","t"," ","C","l","o","s","e","d">>

InvalidInput == <<"I","n","v","a","l","i","d"," ","I","n","p","u","t">>

\* ConfigWindow.open_port_clicked once the fields were read into config:
\* open_port reaches Application.apply_new_settings and
\* update_serial_config, then the message box follows
open_port_clicked(w, config, opened) ==
    call(emit_returns(update_serial_config(w, config, opened)),
         "QMessageBox.information", PortOpened)

\* ConfigWindow.open_port_clicked when int() of the baudrate field raises
\* ValueError
open_port_clicked_invalid(w) == call(w, "QMessageBox.critical", InvalidInput)

\* ConfigWindow.close_port_clicked: close_port is connected to close_serial
close_port_clicked(w) ==
    call(emit_returns(close_serial(w)), "QMessageBox.information", PortClosed)

\* the codes of QSerialPort.SerialPortError that errorOccurred carries
SerialPortErrors == {"NoError", "ResourceError", "ReadError", "WriteError"}

serial_port_error_text == <<"S","e","r","i","a","l"," ","p","o","r","t"," ","e","r","r","o","r",":"," ">>

\* SerialHandler.handle_error; serial_port_error has no slot connected, and
\* errorString() is QSerialPort's text after the prefix
handle_error(w, error) ==
    IF error = "NoError" THEN w
    ELSE call(logging_error(w), "serial_port_error", serial_port_error_text)

\* send_message that writes the text without the line terminator
send_message_unterminated(w, text, sh, bytes_written) ==
    IF ~w.serial_open THEN logging_error(w)
    ELSE IF bytes_written = -1
         THEN logging_error(returned(w, "write", text, Some(bytes_written)))
    ELSE Deliver(returned(w, "write", text, Some(bytes_written)),
                 "message_sent", text, sh)

\* SerialHandler.send_message; bytes_written is what QSerialPort.write
\* returns.  A closed port is logged as an error and nothing else happens;
\* a write that returns -1 is logged as an error; any other count emits
\* message_sent
send_message(w, text, sh, bytes_written) ==
    IF ~w.serial_open THEN logging_error(w)
    ELSE IF bytes_written = -1
         THEN logging_error(returned(w, "write", text \o <<"\n">>, Some(bytes_written)))
    ELSE Deliver(returned(w, "write", text \o <<"\n">>, Some(bytes_written)),
                 "message_sent", text, sh)

\* what write can return for a text and its terminator: an error, a part,
\* or all of it
WriteResults(text) == {-1, 0, Len(text) + 1}

command_text(text) == <<"C","O","M","M","A","N","D","[">> \o text \o <<"]">>

\* SerialInterfaceWidget.handle_send past the check of the input: the signal
\* send_message reaches SerialHandler.send_message, then the command is
\* shown
handle_send(w, text, sh, bytes_written) ==
    append_message(send_message(w, text, sh, bytes_written), command_text(text))

\* Application._close_port_if_open: QSerialPort.close, and no signal
close_port_if_open(w) ==
    IF w.serial_open THEN [call(w, "close", <<>>) EXCEPT !.serial_open = FALSE]
    ELSE w

----------------------------------------------------------------------------
(* The handlers of the running application *)

\* a QSerialPort before configure_serial
NewWorld ==
    [message |-> <<>>, shape |-> NoShape, emitted |-> <<>>, origin |-> "none",
     serial_open |-> FALSE, port_name |-> <<>>,
     settings |-> [baudrate |-> 0, data_bits |-> "", parity |-> "",
                   stop_bits |-> "", flow_control |-> ""],
     rails |-> NoRails, quit |-> FALSE,
     calls |-> <<>>, text_edit |-> <<>>, raised |-> <<>>, error |-> None]

\* SerialHandler.__init__: configure_serial, then open_serial.  The handler
\* is constructed before Application._setup_signals_qt connects its signals,
\* so serial_port_opened is emitted with no slot.
SerialHandler(serial_config, opened) ==
    IF ~IsNone(configure_serial(NewWorld, serial_config).error)
    THEN configure_serial(NewWorld, serial_config)
    ELSE IF opened
         THEN call([returned(configure_serial(NewWorld, serial_config),
                             "open", <<>>, Some(TRUE)) EXCEPT !.serial_open = TRUE],
                   "serial_port_opened",
                   opened_text(configure_serial(NewWorld, serial_config).port_name))
    ELSE logging_error(returned(configure_serial(NewWorld, serial_config),
                                "open", <<>>, Some(FALSE)))

\* Application.__init__: SerialHandler configures the port and tries to
\* open it before any slot is connected; MainWindow builds the shelf
Init ==
    /\ message = <<>>
    /\ shape = NoShape
    /\ emitted = <<>>
    /\ \E opened \in BOOLEAN :
           /\ serial_open = SerialHandler(StartupConfig, opened).serial_open
           /\ calls = SerialHandler(StartupConfig, opened).calls
    /\ port_name = SerialHandler(StartupConfig, TRUE).port_name
    /\ settings = SerialHandler(StartupConfig, TRUE).settings
    /\ \E config \in ShelfConfigs :
           /\ ~IsNone(ShelfWidget(config))
           /\ rails = ShelfWidget(config)[1]
    /\ origin = "none"
    /\ applied = <<>>
    /\ text_edit = <<>>
    /\ raised = <<>>
    /\ quit = FALSE
    /\ handler = [name |-> "__init__", arg |-> StartupConfig]
    /\ read_buffer = <<>>
    /\ arrived = <<>>
    /\ received = <<>>

\* SerialHandler.read_data, one turn of its loop: a line was read, stripped
\* and emitted with message_received
ReadData(sh) ==
    /\ ~quit
    /\ serial_open
    /\ Becomes("read_data", <<>>,
               Deliver(call(World, "readLine", line_text(sh)),
                       "message_received", strip(line_text(sh)), sh))

\* SerialInterfaceWidget.handle_send: the stripped input, unless empty
HandleSend(sh) ==
    /\ ~quit
    /\ strip(line_text(sh)) /= <<>>
    /\ \E bytes_written \in WriteResults(strip(line_text(sh))) :
           Becomes("handle_send", strip(line_text(sh)),
                   handle_send(World, strip(line_text(sh)), sh, bytes_written))

\* RailWidget.on_measure_button_clicked
OnMeasureButtonClicked(id) ==
    /\ ~quit
    /\ \E bytes_written \in WriteResults(measure_command(rails[id])) :
           Becomes("on_measure_button_clicked", measure_command(rails[id]),
                   send_message(World, measure_command(rails[id]), NoShape, bytes_written))

\* RailWidget.on_item_count_label_clicked
OnItemCountLabelClicked(id) ==
    /\ ~quit
    /\ \E bytes_written \in WriteResults(connect_command(rails[id])) :
           Becomes("on_item_count_label_clicked", connect_command(rails[id]),
                   send_message(World, connect_command(rails[id]), NoShape, bytes_written))

\* ConfigWindow.close_port_clicked: close_port is connected to close_serial
CloseSerial ==
    /\ ~quit
    /\ Becomes("close_serial", <<>>, close_port_clicked(World))

\* ConfigWindow.open_port_clicked: open_port reaches apply_new_settings and
\* update_serial_config
UpdateSerialConfig(new_config) ==
    /\ ~quit
    /\ \E opened \in BOOLEAN :
           Becomes("update_serial_config", new_config,
                   open_port_clicked(World, new_config, opened))

\* ConfigWindow.open_port_clicked with a baudrate field that is no number
InvalidInputClicked ==
    /\ ~quit
    /\ Becomes("open_port_clicked", InvalidInput, open_port_clicked_invalid(World))

\* QSerialPort.errorOccurred, connected to handle_error
HandleError(error) ==
    /\ ~quit
    /\ Becomes("handle_error", error, handle_error(World, error))

\* Application._handle_termination
HandleTermination ==
    /\ ~quit
    /\ Becomes("_handle_termination", <<>>,
               [close_port_if_open(World) EXCEPT !.quit = TRUE])

\* Application.run when the last window was closed: app.exec() returns and
\* sys.exit raises SystemExit, which except Exception does not catch
LastWindowClosed ==
    /\ ~quit
    /\ Becomes("run", "exec returned", [World EXCEPT !.quit = TRUE])

\* Application.run when app.exec() raises an Exception
RunException ==
    /\ ~quit
    /\ Becomes("run", "exec raised", [close_port_if_open(World) EXCEPT !.quit = TRUE])

Next ==
    \/ \E sh \in AppShapes : ReadData(sh)
    \/ \E sh \in OperatorShapes : HandleSend(sh)
    \/ \E id \in DOMAIN rails : OnMeasureButtonClicked(id)
    \/ \E id \in DOMAIN rails : OnItemCountLabelClicked(id)
    \/ CloseSerial
    \/ \E new_config \in SerialConfigs : UpdateSerialConfig(new_config)
    \/ InvalidInputClicked
    \/ \E error \in SerialPortErrors : HandleError(error)
    \/ HandleTermination
    \/ LastWindowClosed
    \/ RunException

Spec == Init /\ [][Next]_vars

----------------------------------------------------------------------------
(* One rail alone: a shelf of the single rail 000A under every calibration *)
(* of RailCalibrations, and Distance messages dispatched to it.  applied   *)
(* keeps the last two, each with the count the rail showed after it.       *)

MaxEmptyDistance == 12

MaxFullDistance == 3

MaxItemLength == 5

\* item_length is a length, at least 1 (0 ends the construction, see
\* setup_ui); the full distance may lie beyond the empty one
RailCalibrations ==
    { [empty |-> e, full |-> f, length |-> l] :
        e \in (MaxEmptyDistance - 2)..MaxEmptyDistance,
        f \in (0..MaxFullDistance) \cup {MaxEmptyDistance + 2},
        l \in 1..MaxItemLength }
    \cup { [empty |-> 500, full |-> 100, length |-> 40] }

RailConfig(c) ==
    [ids                 |-> <<IdA>>,
     mac_addresses       |-> <<MacA>>,
     rail_empty_distance |-> <<c.empty>>,
     rail_full_distance  |-> <<c.full>>,
     item_length         |-> <<c.length>>,
     image_path          |-> <<Image>>]

RailId == <<"0","0","0","A">>

InitRail ==
    /\ message = <<>>
    /\ shape = NoShape
    /\ emitted = <<>>
    /\ serial_open = TRUE
    /\ port_name = COM3
    /\ \E c \in RailCalibrations :
           /\ ~IsNone(ShelfWidget(RailConfig(c)))
           /\ rails = ShelfWidget(RailConfig(c))[1]
    /\ origin = "none"
    /\ applied = <<>>
    /\ settings = <<>>
    /\ calls = <<>>
    /\ text_edit = <<>>
    /\ raised = <<>>
    /\ quit = FALSE
    /\ handler = [name |-> "none", arg |-> <<>>]
    /\ read_buffer = <<>>
    /\ arrived = <<>>
    /\ received = <<>>

Applied(distance, shelf) ==
    (IF applied = <<>> THEN <<>> ELSE <<applied[Len(applied)]>>)
        \o <<[distance |-> distance, n_items |-> shelf[RailId].n_items]>>

\* ShelfWidget.update_shelf for a Distance message of rail 000A
Dispatched(distance, shelf) ==
    /\ rails' = shelf
    /\ applied' = Applied(distance, shelf)

DispatchDistance(distance) ==
    /\ Dispatched(distance,
                  update_shelf(rails, Message("DISTANCE", <<>>, Some(IdA), Some(distance))))
    /\ UNCHANGED <<message, shape, emitted, serial_open, port_name, origin>>
    /\ UNCHANGED <<settings, calls, text_edit, raised, quit, handler>>
    /\ UNCHANGED <<read_buffer, arrived, received>>

NextRail == \E distance \in AppDistances : DispatchDistance(distance)

SpecRail == InitRail /\ [][NextRail]_vars

----------------------------------------------------------------------------
(* The read path alone: bytes reach an open port in chunks, each chunk     *)
(* fires readyRead, and read_data runs.  A byte is a one-character string; *)
(* InvalidByte stands for a byte that is no UTF-8.                         *)

InvalidByte == "0xFF"

Bytes == {"a", " ", "\n", InvalidByte}

MaxChunk == 2

MaxArrived == 5

\* the chunks of 1..MaxChunk bytes
Chunks == UNION { [1..n -> Bytes] : n \in 1..MaxChunk }

\* QSerialPort.canReadLine
canReadLine(buffer) == find(buffer, "\n", 1) /= 0

\* QSerialPort.readLine: the bytes up to the first line terminator, with it
readLine(buffer) == SubSeq(buffer, 1, find(buffer, "\n", 1))

\* bytes.decode(): the text, or None for UnicodeDecodeError
decode(bytes) ==
    IF \E i \in DOMAIN bytes : bytes[i] = InvalidByte THEN None ELSE Some(bytes)

\* SerialHandler.read_data: [buffer, out, raised] after its loop, out being
\* the texts message_received carried.  UnicodeDecodeError ends the loop
\* after readLine took the line.
RECURSIVE read_data(_, _)
read_data(buffer, out) ==
    IF ~canReadLine(buffer) THEN [buffer |-> buffer, out |-> out, raised |-> <<>>]
    ELSE IF IsNone(decode(readLine(buffer)))
         THEN [buffer |-> SubSeq(buffer, Len(readLine(buffer)) + 1, Len(buffer)),
               out |-> out, raised |-> <<"UnicodeDecodeError">>]
    ELSE read_data(SubSeq(buffer, Len(readLine(buffer)) + 1, Len(buffer)),
                   Append(out, strip(decode(readLine(buffer))[1])))

InitRead ==
    /\ message = <<>>
    /\ shape = NoShape
    /\ emitted = <<>>
    /\ serial_open = TRUE
    /\ port_name = COM3
    /\ rails = NoRails
    /\ origin = "none"
    /\ applied = <<>>
    /\ settings = <<>>
    /\ calls = <<>>
    /\ text_edit = <<>>
    /\ raised = <<>>
    /\ quit = FALSE
    /\ handler = [name |-> "none", arg |-> <<>>]
    /\ read_buffer = <<>>
    /\ arrived = <<>>
    /\ received = <<>>

\* the handler read_data ends in r
Read(chunk, r) ==
    /\ arrived' = arrived \o chunk
    /\ read_buffer' = r.buffer
    /\ received' = received \o r.out
    /\ raised' = r.raised
    /\ handler' = [name |-> "read_data", arg |-> chunk]

\* QSerialPort.readyRead after a chunk of bytes, connected to read_data
ReadyRead(chunk) ==
    /\ serial_open
    /\ Len(arrived) + Len(chunk) <= MaxArrived
    /\ Read(chunk, read_data(read_buffer \o chunk, <<>>))
    /\ UNCHANGED <<message, shape, emitted, serial_open, port_name, rails, origin,
                   applied, settings, calls, text_edit, quit>>

NextRead == \E chunk \in Chunks : ReadyRead(chunk)

SpecRead == InitRead /\ [][NextRead]_vars

----------------------------------------------------------------------------
(* The shelf alone: ShelfWidget is constructed from a "shelf" config whose  *)
(* six lists have lengths of their own, or are absent, and messages are     *)
(* then dispatched to it.  handler.arg keeps the config.                    *)

MaxRails == 2

\* twelve ids, one more than the shelf has places; the last is 0c
ManyIds ==
    <<IdA, IdB>> \o [i \in 1..(TOTAL_ELEMENTS - 2) |-> <<"0", HexDigits[i + 1]>>] \o <<IdC>>

ShelfKeys ==
    {"ids", "mac_addresses", "rail_empty_distance", "rail_full_distance",
     "item_length", "image_path"}

\* the lists in full; every config has a prefix of each
FullShelfConfig ==
    [ids                 |-> ManyIds,
     mac_addresses       |-> [i \in DOMAIN ManyIds |-> MacA],
     rail_empty_distance |-> [i \in DOMAIN ManyIds |-> 10],
     rail_full_distance  |-> [i \in DOMAIN ManyIds |-> 0],
     item_length         |-> [i \in DOMAIN ManyIds |-> 4],
     image_path          |-> [i \in DOMAIN ManyIds |-> Image]]

\* a list has up to MaxRails entries, or as many as the shelf has places,
\* or one more
ShelfLengths == (0..MaxRails) \cup {TOTAL_ELEMENTS, TOTAL_ELEMENTS + 1}

\* the config with n[k] entries under k, and no key of absent
shelf_config(n, absent) ==
    [k \in ShelfKeys \ absent |-> SubSeq(FullShelfConfig[k], 1, n[k])]

\* the lengths of the lists: all the same, or all one more than the shelf
\* has places but those of one or two keys
ShelfLengthChoices ==
    { [k \in ShelfKeys |-> a] : a \in ShelfLengths }
    \cup { [k \in ShelfKeys |-> IF k = k1 THEN a ELSE IF k = k2 THEN b ELSE TOTAL_ELEMENTS + 1] :
             k1 \in ShelfKeys, k2 \in ShelfKeys, a \in ShelfLengths, b \in ShelfLengths }

\* every choice of the lengths; an absent key is one whose list would be
\* empty
ShelfInputs ==
    { shelf_config(n, {}) : n \in ShelfLengthChoices }
    \cup UNION { { shelf_config(n, {k}) : n \in { m \in ShelfLengthChoices : m[k] = 0 } } :
                   k \in ShelfKeys }

\* ShelfWidget.__init__: logging.warning unless there are TOTAL_ELEMENTS ids
shelf_warnings(config) ==
    IF Len(get(config, "ids", <<>>)) /= TOTAL_ELEMENTS
    THEN <<[op |-> "logging.warning", arg |-> Len(get(config, "ids", <<>>)),
            ret |-> None, open |-> FALSE]>>
    ELSE <<>>

\* the lines dispatched to the shelf
ShelfShapes ==
    { [head |-> Hash, fields |-> <<Field(ESL_ID, TRUE, id), g>>] :
        id \in {IdA, IdB, IdC},
        g \in { Field(DISTANCE, TRUE, <<"1">>), Field(DISTANCE, TRUE, <<"9">>),
                Field(BATTERY, TRUE, <<"8","7">>), Field(TAG_DISCONNECTED, FALSE, <<>>) } }

shelf_messages == [sh \in ShelfShapes |-> parse_message(strip(line_text(sh)))]

InitShelf ==
    /\ message = <<>>
    /\ shape = NoShape
    /\ emitted = <<>>
    /\ serial_open = FALSE
    /\ port_name = COM3
    /\ rails = NoRails
    /\ origin = "none"
    /\ applied = <<>>
    /\ settings = <<>>
    /\ calls = <<>>
    /\ text_edit = <<>>
    /\ raised = <<>>
    /\ quit = FALSE
    /\ handler = [name |-> "none", arg |-> <<>>]
    /\ read_buffer = <<>>
    /\ arrived = <<>>
    /\ received = <<>>

\* ShelfWidget.__init__ and setup_ui.  The ids of FullShelfConfig are hex
\* and its item lengths are not 0, so the exception that ends a
\* construction here is the IndexError of a list shorter than the position.
ShelfInit(config) ==
    /\ handler.name = "none"
    /\ handler' = [name |-> "ShelfWidget.__init__", arg |-> config]
    /\ calls' = shelf_warnings(config)
    /\ rails' = IF IsNone(ShelfWidget(config)) THEN rails ELSE ShelfWidget(config)[1]
    /\ raised' = IF IsNone(ShelfWidget(config)) THEN <<"IndexError">> ELSE <<>>
    /\ UNCHANGED <<message, shape, emitted, serial_open, port_name, origin, applied,
                   settings, text_edit, quit, read_buffer, arrived, received>>

\* MainWindow.message_received on a shelf that was constructed
UpdateShelf(sh) ==
    /\ handler.name /= "none"
    /\ raised = <<>>
    /\ handler' = [name |-> "update_shelf", arg |-> strip(line_text(sh))]
    /\ message' = line_text(sh)
    /\ shape' = sh
    /\ emitted' = <<shelf_messages[sh]>>
    /\ rails' = message_received(rails, shelf_messages[sh])
    /\ UNCHANGED <<serial_open, port_name, origin, applied, settings, calls,
                   text_edit, raised, quit, read_buffer, arrived, received>>

NextShelf ==
    \/ \E config \in ShelfInputs : ShelfInit(config)
    \/ \E sh \in ShelfShapes : UpdateShelf(sh)

SpecShelf == InitShelf /\ [][NextShelf]_vars

\* ==== claims ====
----------------------------------------------------------------------------
(* Claims about the decoder, under SpecParser *)

HashLine == startswith(strip(message), "#")

Decoded == emitted /= <<>>

\* the first field reads ESL_ID:<value>, whatever the value
FirstIsEslId ==
    /\ HashLine
    /\ Len(shape.fields) >= 1
    /\ upper(shape.fields[1].key) = ESL_ID
    /\ shape.fields[1].colon

\* ... and the value is one int(value, 16) accepts
FirstIsHexId == FirstIsEslId /\ ~IsNone(py_int(shape.fields[1].value, 16))

SecondKeyIs(k) ==
    /\ Len(shape.fields) >= 2
    /\ upper(shape.fields[2].key) = k

SecondHasInt ==
    /\ shape.fields[2].colon
    /\ ~IsNone(py_int(shape.fields[2].value, 10))

\* C1's malformed lines: no field, one field only, or ESL_ID without a value
C1_Malformed ==
    /\ HashLine
    /\ \/ Len(shape.fields) <= 1
       \/ upper(shape.fields[1].key) = ESL_ID /\ ~shape.fields[1].colon

\* C1: parse_message emits exactly one Message of one of the four types for
\* every line, never None, and a malformed '#' line gives OTHER carrying
\* the text of the line.
C1_ParseMessageTotal ==
    Decoded =>
        /\ Len(emitted) = 1
        /\ ~IsNone(emitted[1])
        /\ emitted[1][1].msg_type \in MessageType
        /\ C1_Malformed =>
              /\ emitted[1][1].msg_type = "OTHER"
              /\ strip(emitted[1][1].content) = strip(message)

\* C2: of the Messages emitted, one for a line whose ESL_ID value is not
\* hex-parseable is OTHER, and none of type DISTANCE, BATTERY or
\* DISCONNECTED has an absent esl_id.
C2_InvalidIdIsOther ==
    (Decoded /\ ~IsNone(emitted[1])) =>
        /\ (FirstIsEslId /\ ~FirstIsHexId) => emitted[1][1].msg_type = "OTHER"
        /\ emitted[1][1].msg_type /= "OTHER" => ~IsNone(emitted[1][1].esl_id)

C3_Expected(type, data) ==
    <<Some([msg_type |-> type,
            content  |-> strip(message),
            esl_id   |-> Some(format_04X(py_int(shape.fields[1].value, 16)[1])),
            data     |-> data])>>

\* C3: '#[ESL_ID:h][second field]...' with h hex-parseable decodes by the
\* second key, matched whatever its case: DISTANCE:n to a DISTANCE message
\* with the canonical id and data n, BATTERY:n likewise, TAG DISCONNECTED to
\* a DISCONNECTED message with the canonical id; further fields are ignored.
\* The spec's two examples are the last two conjuncts.
C3_SecondKeySelects ==
    (Decoded /\ FirstIsHexId) =>
        /\ (SecondKeyIs(DISTANCE) /\ SecondHasInt) =>
              emitted = C3_Expected("DISTANCE", py_int(shape.fields[2].value, 10))
        /\ (SecondKeyIs(BATTERY) /\ SecondHasInt) =>
              emitted = C3_Expected("BATTERY", py_int(shape.fields[2].value, 10))
        /\ (SecondKeyIs(TAG_DISCONNECTED) /\ ~shape.fields[2].colon) =>
              emitted = C3_Expected("DISCONNECTED", None)
        /\ (message = <<"#","[">> \o ESL_ID \o <<":","0","a","]","[">> \o DISTANCE
                          \o <<":","1","2","0","]">>) =>
              /\ emitted[1][1].msg_type = "DISTANCE"
              /\ emitted[1][1].esl_id = Some(<<"0","0","0","A">>)
              /\ emitted[1][1].data = Some(120)
        /\ (message = <<"#","[">> \o ESL_ID \o <<":","0","a","]","[">>
                          \o TAG_DISCONNECTED \o <<"]">>) =>
              /\ emitted[1][1].msg_type = "DISCONNECTED"
              /\ emitted[1][1].esl_id = Some(<<"0","0","0","A">>)

\* C3's case: a lower-case second key, a lower-case first key or a third
\* field, decoded to a typed message
C3_Witness ==
    /\ Decoded
    /\ FirstIsHexId
    /\ shape.fields[1].key = lower(ESL_ID)
    /\ Len(shape.fields) = 3
    /\ shape.fields[2].key = lower(DISTANCE)
    /\ ~IsNone(emitted[1])
    /\ emitted[1][1].msg_type = "DISTANCE"
    /\ emitted[1][1].data = Some(120)

\* C4: a valid ESL_ID followed by DISTANCE or BATTERY with a missing or
\* non-integer payload decodes to OTHER with the raw text and no ESL ID.
C4_BadPayloadIsOther ==
    (/\ Decoded
     /\ FirstIsHexId
     /\ SecondKeyIs(DISTANCE) \/ SecondKeyIs(BATTERY)
     /\ ~SecondHasInt) =>
        /\ ~IsNone(emitted[1])
        /\ emitted[1][1].msg_type = "OTHER"
        /\ emitted[1][1].content = strip(message)
        /\ IsNone(emitted[1][1].esl_id)

\* C5: an OTHER message has neither esl_id nor data, also after a valid
\* ESL_ID field, and a line that does not start with '#' gives OTHER with
\* the text of the line.
C5_OtherHasNoId ==
    Decoded =>
        /\ (~IsNone(emitted[1]) /\ emitted[1][1].msg_type = "OTHER") =>
              /\ IsNone(emitted[1][1].esl_id)
              /\ IsNone(emitted[1][1].data)
        /\ ~HashLine =>
              emitted = <<Some([msg_type |-> "OTHER", content |-> message,
                                esl_id |-> None, data |-> None])>>

\* C5's case: a hex-parseable ESL_ID, then a key the decoder does not know
C5_Witness ==
    /\ Decoded
    /\ FirstIsHexId
    /\ SecondKeyIs(Foo)
    /\ ~IsNone(emitted[1])
    /\ emitted[1][1].msg_type = "OTHER"

----------------------------------------------------------------------------
(* Claims about the rails *)

\* C6: a rail's count and connected flag change only when a message decoded
\* from a line received from the transport is dispatched; what the operator
\* sends, the command buttons and the port notifications change no rail.
C6_RailsChangeOnlyOnReceive == [][rails' /= rails => origin' = "message_received"]_vars

\* C7: every rail's count, once shown, is within [0, max_items].
C7_CountInRange ==
    \A id \in DOMAIN rails :
        ~IsNone(rails[id].n_items) =>
            /\ 0 <= rails[id].n_items[1]
            /\ rails[id].n_items[1] <= rails[id].max_items

\* the rail of SpecRail and the Distance message last dispatched to it
Rail == rails[RailId]

LastApplied == applied[Len(applied)]

\* C8 reads "clamped to [0, max_items]" for a range that is not empty
C8_Clamped(raw, max_items) ==
    IF raw < 0 THEN 0 ELSE IF raw > max_items THEN max_items ELSE raw

C8_Tolerance == Rail.item_length \div 4

C8_MaxItems == (Rail.rail_empty_distance - Rail.rail_full_distance) \div Rail.item_length

C8_Raw(distance) ==
    (Rail.rail_empty_distance - distance + C8_Tolerance) \div Rail.item_length

\* C8: after a Distance message with distance d the count of the rail is
\* floor((empty_distance - d + tolerance) / item_length) clamped to
\* [0, max_items], with tolerance = floor(0.25 * item_length) and
\* max_items = floor((empty_distance - full_distance) / item_length); for
\* empty 500, full 100 and item_length 40 that is max_items 10, tolerance 10
\* and the count 9 for d = 120.
C8_CountFormula ==
    applied /= <<>> =>
        /\ Rail.tolerance = C8_Tolerance
        /\ Rail.max_items = C8_MaxItems
        /\ C8_MaxItems >= 0 =>
              Rail.n_items = Some(C8_Clamped(C8_Raw(LastApplied.distance), C8_MaxItems))
        /\ (/\ Rail.rail_empty_distance = 500
            /\ Rail.rail_full_distance = 100
            /\ Rail.item_length = 40) =>
              /\ Rail.max_items = 10
              /\ Rail.tolerance = 10
              /\ LastApplied.distance = 120 => Rail.n_items = Some(9)

\* C8's case: the spec's rail after the distance 120
C8_Witness ==
    /\ applied /= <<>>
    /\ Rail.rail_empty_distance = 500
    /\ Rail.item_length = 40
    /\ LastApplied.distance = 120
    /\ Rail.n_items = Some(9)

\* C9: the count of a rail changes only in a step that dispatches a Distance
\* message of that rail; Battery and Disconnected messages leave it as it is.
C9_CountChangesOnlyOnDistance ==
    [][\A id \in DOMAIN rails :
          rails'[id].n_items /= rails[id].n_items =>
              /\ emitted' /= <<>>
              /\ ~IsNone(emitted'[1])
              /\ emitted'[1][1].msg_type = "DISTANCE"
              /\ emitted'[1][1].esl_id = Some(id)]_vars

\* C9's case: rail 000B was disconnected after it had shown a count above 0
C9_Witness ==
    /\ emitted /= <<>>
    /\ ~IsNone(emitted[1])
    /\ emitted[1][1].msg_type = "DISCONNECTED"
    /\ emitted[1][1].esl_id = Some(<<"0","0","0","B">>)
    /\ rails[<<"0","0","0","B">>].connected = Some(FALSE)
    /\ ~IsNone(rails[<<"0","0","0","B">>].n_items)
    /\ rails[<<"0","0","0","B">>].n_items[1] > 0

\* C10: for one calibration the count does not grow with the distance: of
\* two Distance messages, the one with the larger distance gives no larger
\* count.
C10_CountMonotonic ==
    Len(applied) = 2 =>
        /\ applied[1].distance <= applied[2].distance =>
              applied[1].n_items[1] >= applied[2].n_items[1]
        /\ applied[2].distance <= applied[1].distance =>
              applied[2].n_items[1] >= applied[1].n_items[1]

\* C10's case: a larger distance that gave a smaller count
C10_Witness ==
    /\ Len(applied) = 2
    /\ applied[1].distance < applied[2].distance
    /\ applied[1].n_items[1] > applied[2].n_items[1]

----------------------------------------------------------------------------
(* Claims about the dispatch and the log, under Spec *)

HasMessage == emitted /= <<>> /\ ~IsNone(emitted[1])

LastMessage == emitted[1][1]

Typed == LastMessage.msg_type \in {"DISTANCE", "BATTERY", "DISCONNECTED"}

InLog == \E i \in DOMAIN text_edit : text_edit[i] = LastMessage.content

IdOnNoRail == <<"0","0","0","C">>

\* C11: a step that dispatches a Distance, Battery or Disconnected message
\* whose canonical id is no key of the rails raises nothing and leaves every
\* rail's count and connected flag as they were.
C11_UnknownIdChangesNoRail ==
    [][(/\ HasMessage'
        /\ Typed'
        /\ ~IsNone(LastMessage'.esl_id)
        /\ LastMessage'.esl_id[1] \notin DOMAIN rails)
       => (rails' = rails /\ raised' = <<>>)]_vars

\* C11's case: a Distance message of 000C was dispatched to a shelf whose
\* rail 000A shows a count
C11_Witness ==
    /\ HasMessage
    /\ LastMessage.msg_type = "DISTANCE"
    /\ LastMessage.esl_id = Some(IdOnNoRail)
    /\ IdOnNoRail \notin DOMAIN rails
    /\ raised = <<>>
    /\ ~IsNone(rails[RailId].n_items)

\* C12: a step whose message is OTHER, or is typed with no esl_id, changes
\* no rail and appends the message's text to text_edit.
C12_UnroutedIsLogged ==
    [][(/\ HasMessage'
        /\ (LastMessage'.msg_type = "OTHER" \/ IsNone(LastMessage'.esl_id)))
       => (rails' = rails /\ InLog')]_vars

\* C12's case: a Battery message without an id was shown, on a shelf whose
\* rail 000A shows a count
C12_Witness ==
    /\ HasMessage
    /\ LastMessage.msg_type = "BATTERY"
    /\ IsNone(LastMessage.esl_id)
    /\ text_edit = <<LastMessage.content>>
    /\ ~IsNone(rails[RailId].n_items)

----------------------------------------------------------------------------
(* Claims about the serial link, under Spec *)

\* the places in calls of the calls of op
Ops(op) == { i \in DOMAIN calls : calls[i].op = op }

SendHandlers == {"handle_send", "on_measure_button_clicked", "on_item_count_label_clicked"}

CloseHandlers == {"close_serial", "update_serial_config", "_handle_termination"}

SetOps == {"setPortName", "setBaudRate", "setDataBits", "setParity", "setStopBits", "setFlowControl"}

Reconfigured == handler.name = "update_serial_config"

\* C13: after handle_error with an error other than NoError on an open port
\* the port is closed, serial_port_error was emitted, and no open was tried.
C13_ErrorClosesLink ==
    [][(/\ serial_open
        /\ handler'.name = "handle_error"
        /\ handler'.arg /= "NoError")
       => (/\ ~serial_open'
           /\ Ops("serial_port_error")' /= {}
           /\ Ops("open")' = {})]_vars

\* C14: a send on a port that is not open writes nothing, emits no
\* message_sent, leaves the port as it is, and raises the rejection to its
\* caller (a line in the error log does not reach the caller).
C14_ClosedSendRejected ==
    [][(~serial_open /\ handler'.name \in SendHandlers)
       => (/\ Ops("write")' = {}
           /\ Ops("message_sent")' = {}
           /\ ~serial_open'
           /\ raised' /= <<>>)]_vars

NoPort(config) == IsNone(get_port(config)) \/ get_port(config) = Some(<<>>)

\* C15: after update_serial_config with a config whose port is missing or
\* empty the port is closed, open was not called and serial_port_opened was
\* not emitted.
C15_NoPortNeverOpens ==
    (Reconfigured /\ NoPort(handler.arg))
        => (/\ ~serial_open
            /\ Ops("open") = {}
            /\ Ops("serial_port_opened") = {})

\* C15's case: the port was open when a config with an empty port came
C15_Witness ==
    /\ Reconfigured
    /\ get_port(handler.arg) = Some(<<>>)
    /\ Ops("close") /= {}
    /\ ~serial_open

\* data_bits, parity, stop_bits or flow_control outside what the port takes
InvalidSetting(config) ==
    \/ get(config, "data_bits", DEFAULT_DATA_BITS) \notin {5, 6, 7, 8}
    \/ get(config, "parity", DEFAULT_PARITY) \notin {"None", "Even", "Odd", "Mark", "Space"}
    \/ get(config, "stop_bits", DEFAULT_STOP_BITS) \notin {1, 2}
    \/ get(config, "flow_control", DEFAULT_FLOW_CONTROL) \notin {"None", "RTS/CTS", "XON/XOFF"}

\* C16: after update_serial_config with an invalid setting the port is
\* closed and open was not called.
C16_InvalidSettingRejected ==
    (Reconfigured /\ InvalidSetting(handler.arg))
        => (~serial_open /\ Ops("open") = {})

\* C17: update_serial_config sets nothing on an open port; on an open port
\* it starts with close and serial_port_closed; it calls open at most once;
\* serial_port_closed comes before serial_port_opened; and it neither reads
\* nor writes.
C17_CloseThenReopen ==
    [][Reconfigured' =>
          (/\ \A i \in DOMAIN calls' : calls'[i].op \in SetOps => ~calls'[i].open
           /\ serial_open =>
                 /\ Len(calls') >= 2
                 /\ calls'[1].op = "close"
                 /\ calls'[2].op = "serial_port_closed"
           /\ Cardinality(Ops("open")') <= 1
           /\ \A i \in Ops("serial_port_closed")', j \in Ops("serial_port_opened")' : i < j
           /\ Ops("write")' = {}
           /\ Ops("readLine")' = {})]_vars

\* C17's case: an open port was closed, configured and opened again
C17_Witness ==
    /\ Reconfigured
    /\ Ops("serial_port_closed") /= {}
    /\ Ops("setPortName") /= {}
    /\ Ops("serial_port_opened") /= {}
    /\ serial_open

\* C18: in close_serial, update_serial_config and the termination handler
\* every close of the port is followed by one serial_port_closed, and
\* close_serial on a closed port emits none and leaves the port closed.
C18_CloseNotifiesOnce ==
    [][/\ handler'.name \in CloseHandlers =>
             /\ \A i \in Ops("close")' :
                   /\ i + 1 \in DOMAIN calls'
                   /\ calls'[i + 1].op = "serial_port_closed"
             /\ Cardinality(Ops("serial_port_closed")') = Cardinality(Ops("close")')
             /\ (serial_open /\ ~serial_open') => Cardinality(Ops("serial_port_closed")') = 1
       /\ (~serial_open /\ handler'.name = "close_serial") =>
             (Ops("serial_port_closed")' = {} /\ ~serial_open')]_vars

\* C19: when write returns less than the length of the text and its
\* terminator, the error is logged, message_sent is not emitted, and write
\* is not called again.
C19_ShortWriteFails ==
    \A i \in Ops("write") :
        calls[i].ret[1] < Len(calls[i].arg) =>
            /\ Ops("logging.error") /= {}
            /\ Ops("message_sent") = {}
            /\ Cardinality(Ops("write")) = 1

\* C20: a send on an open port calls write once, with the text and one line
\* terminator after it; message_sent is emitted at most once; and when write
\* took all of it, message_sent is emitted once, after the write, with the
\* text without the terminator.
C20_OneWritePerSend ==
    [][(serial_open /\ handler'.name \in SendHandlers) =>
          (/\ Cardinality(Ops("write")') = 1
           /\ \A i \in Ops("write")' :
                 /\ calls'[i].arg = handler'.arg \o <<"\n">>
                 /\ calls'[i].ret = Some(Len(handler'.arg) + 1) =>
                       /\ Cardinality(Ops("message_sent")') = 1
                       /\ \A j \in Ops("message_sent")' :
                             j > i /\ calls'[j].arg = handler'.arg
           /\ Cardinality(Ops("message_sent")') <= 1)]_vars

\* C20's case: the operator's text was written whole and message_sent
\* followed
C20_Witness ==
    /\ handler.name = "handle_send"
    /\ Len(calls) = 2
    /\ calls[1].op = "write"
    /\ calls[1].ret = Some(Len(handler.arg) + 1)
    /\ calls[2].op = "message_sent"
    /\ calls[2].arg = handler.arg

----------------------------------------------------------------------------
(* Claims about the read path, under SpecRead *)

\* the complete lines of a sequence of bytes, each with its terminator
RECURSIVE CompleteLines(_)
CompleteLines(bytes) ==
    IF find(bytes, "\n", 1) = 0 THEN <<>>
    ELSE <<SubSeq(bytes, 1, find(bytes, "\n", 1))>>
             \o CompleteLines(SubSeq(bytes, find(bytes, "\n", 1) + 1, Len(bytes)))

\* the bytes after the last line terminator
RECURSIVE Incomplete(_)
Incomplete(bytes) ==
    IF find(bytes, "\n", 1) = 0 THEN bytes
    ELSE Incomplete(SubSeq(bytes, find(bytes, "\n", 1) + 1, Len(bytes)))

\* C21: message_received has carried every complete line that arrived, once
\* and in the order of arrival, and the port keeps exactly the bytes of the
\* line that is not complete yet.
C21_EveryLineOnce ==
    /\ Len(received) = Len(CompleteLines(arrived))
    /\ \A i \in DOMAIN received : received[i] = strip(CompleteLines(arrived)[i])
    /\ read_buffer = Incomplete(arrived)

----------------------------------------------------------------------------
(* Claims about the end of the application, under Spec *)

\* C22: when the application has ended, by a termination signal, by the
\* closing of the main window or by an exception in the event loop, the
\* port is closed.
C22_ClosedBeforeExit == quit => ~serial_open

----------------------------------------------------------------------------
(* Claims about the canonical id, under SpecParser *)

HasId == Decoded /\ ~IsNone(emitted[1]) /\ ~IsNone(emitted[1][1].esl_id)

CanonicalId == emitted[1][1].esl_id[1]

UpperHexDigits == { HexDigits[i] : i \in DOMAIN HexDigits }

\* C23: the esl_id of a decoded message is four characters, each an
\* uppercase hexadecimal digit.
C23_CanonicalIsFourHexDigits ==
    HasId =>
        /\ Len(CanonicalId) = 4
        /\ \A i \in DOMAIN CanonicalId : CanonicalId[i] \in UpperHexDigits

\* C24: the canonical id of a canonical id is that canonical id.
C24_CanonicalIdempotent ==
    HasId => convert_esl_id(Some(CanonicalId)) = Some(CanonicalId)

\* C24's case: an id text that is not its own canonical form, negative, with
\* whitespace or above 0xFFFF
C24_Witness ==
    /\ HasId
    /\ shape.fields[1].value /= CanonicalId
    /\ \/ Head(CanonicalId) = "-"
       \/ Len(CanonicalId) > 4
       \/ Head(shape.fields[1].value) = " "

----------------------------------------------------------------------------
(* Claims about the construction of the shelf, under SpecShelf *)

\* C25: the shelf never has more than TOTAL_ELEMENTS rails, and once it is
\* constructed no step adds a rail to it or takes one off it.
C25_RailsFixed ==
    /\ [](Cardinality(DOMAIN rails) <= TOTAL_ELEMENTS)
    /\ [][handler.name /= "none" => DOMAIN rails' = DOMAIN rails]_vars

\* C25's case: the shelf was built from twelve ids and has eleven rails;
\* rail 000A took a Distance message, and then a Disconnected message of
\* the twelfth id arrived
C25_Witness ==
    /\ Cardinality(DOMAIN rails) = TOTAL_ELEMENTS
    /\ IdOnNoRail \notin DOMAIN rails
    /\ HasMessage
    /\ LastMessage.msg_type = "DISCONNECTED"
    /\ LastMessage.esl_id = Some(IdOnNoRail)
    /\ rails[RailId].connected = Some(TRUE)

\* the canonical ids of the first n ids of a config
canonical_ids(config, n) ==
    { format_04X(py_int(get(config, "ids", <<>>)[i], 16)[1]) : i \in 1..n }

\* the length of the shortest list of a config, at most TOTAL_ELEMENTS
shortest(config) ==
    CHOOSE n \in 0..TOTAL_ELEMENTS :
        /\ \A k \in ShelfKeys : n <= Len(get(config, k, <<>>))
        /\ \/ n = TOTAL_ELEMENTS
           \/ \E k \in ShelfKeys : n = Len(get(config, k, <<>>))

\* C26: a construction raises nothing and leaves the rails of the first ids,
\* as many as the shortest list has entries.
C26_ShortListsTolerated ==
    handler.name = "ShelfWidget.__init__"
        => /\ raised = <<>>
           /\ DOMAIN rails = canonical_ids(handler.arg, shortest(handler.arg))

----------------------------------------------------------------------------
(* Claims about the settings dialog and the startup, under Spec *)

PortOpenedShown ==
    \E i \in Ops("QMessageBox.information") : calls[i].arg = PortOpened

\* C27: after Open Port was pressed, the box "Port Opened" is shown only if
\* the port is open.
C27_ConfirmedOnlyWhenOpen == (Reconfigured /\ PortOpenedShown) => serial_open

\* a message of a rail of the shelf was dispatched
Routed ==
    /\ HasMessage
    /\ Typed
    /\ ~IsNone(LastMessage.esl_id)
    /\ LastMessage.esl_id[1] \in DOMAIN rails

\* floor((empty_distance - distance + tolerance) / item_length) clamped to
\* [0, max_items]
C28_Count(rail, distance) ==
    C8_Clamped((rail.rail_empty_distance - distance + (rail.item_length \div 4))
                   \div rail.item_length,
               (rail.rail_empty_distance - rail.rail_full_distance) \div rail.item_length)

\* C28: a step that dispatches a Distance, Battery or Disconnected message
\* of a rail leaves every other rail as it was, makes the rail connected
\* iff the message is no Disconnected, and gives it the clamped count of a
\* Distance message (for a range [0, max_items] that is not empty) or
\* leaves its count; every other step leaves all rails as they were.  By
\* induction a rail's flag and count are those of the last such messages of
\* its own id.
C28_RailFollowsOwnEvents ==
    [][/\ Routed' =>
            /\ \A k \in (DOMAIN rails) \ {LastMessage'.esl_id[1]} : rails'[k] = rails[k]
            /\ rails'[LastMessage'.esl_id[1]].connected
                  = Some(LastMessage'.msg_type /= "DISCONNECTED")
            /\ (/\ LastMessage'.msg_type = "DISTANCE"
                /\ rails[LastMessage'.esl_id[1]].max_items >= 0) =>
                  rails'[LastMessage'.esl_id[1]].n_items
                      = Some(C28_Count(rails[LastMessage'.esl_id[1]], LastMessage'.data[1]))
            /\ LastMessage'.msg_type /= "DISTANCE" =>
                  rails'[LastMessage'.esl_id[1]].n_items
                      = rails[LastMessage'.esl_id[1]].n_items
       /\ ~Routed' => rails' = rails]_vars

OtherRailId == <<"0","0","0","B">>

\* C28's case: rail 000A was disconnected after it had shown a count,
\* while rail 000B is connected and shows a count above 0
C28_Witness ==
    /\ Routed
    /\ LastMessage.msg_type = "DISCONNECTED"
    /\ LastMessage.esl_id = Some(RailId)
    /\ rails[RailId].connected = Some(FALSE)
    /\ ~IsNone(rails[RailId].n_items)
    /\ rails[OtherRailId].connected = Some(TRUE)
    /\ ~IsNone(rails[OtherRailId].n_items)
    /\ rails[OtherRailId].n_items[1] > 0

\* C29: the log has as many lines "Serial port ... opened." as
\* QSerialPort.open returned True, in the constructor and in every handler.
C29_OpenedNotifiedOnce ==
    Cardinality({ i \in DOMAIN text_edit : text_edit[i] = opened_text(port_name) })
        = Cardinality({ i \in Ops("open") : calls[i].ret = Some(TRUE) })

\* C30: Open Port pressed in a dialog with no field edited leaves the port
\* name and the settings of the port as they were.
C30_UneditedKeepsConfig ==
    [][(/\ Reconfigured'
        /\ handler'.arg = dialog_config(StartupConfig))
       => (port_name' = port_name /\ settings' = settings)]_vars

====
